---- MODULE Spec2Model ----
(***************************************************************************)
(* Real-time room relay of the collaborative whiteboard                    *)
(* (backend/socket/socketHandlers.js): socket authentication, room join,   *)
(* the drawing / chat / voice / WebRTC relay handlers and disconnect.      *)
(* Every await of a handler is a separate step, so handlers of the same    *)
(* and of different sessions interleave as they do on the Node event loop. *)
(***************************************************************************)
EXTENDS Integers, Sequences, FiniteSets, TLC

\* ------------------------------------------------------------------ bounds
\* handlers that may be suspended at an await at the same time
MaxInFlight == 1
\* the same, where a handler is to run while another one is suspended
MaxRacing == 2
\* packets waiting in one browser, and events one browser has yet to send
MaxInbox == 1
\* images the Whiteboard history may hold
MaxHistory == 5

\* ------------------------------------------------------------ the universe
Sessions == {"s1", "s2"}
Rooms == {"R1", "R2"}
Users == {"u1", "u2"}
None == "none"

\* User documents of the identity store: socket.user.username
Username(u) == IF u = "u1" THEN "alice" ELSE IF u = "u2" THEN "bob" ELSE None

\* handshake.auth.token: absent, failing jwt.verify, signed for a user the
\* store does not hold, or signed for a stored user
Tokens == {"missing", "forged", "stale"} \cup Users

\* the tokens a client may hold: s1 is a client of u1, s2 a client of u2 or a
\* client without a valid token
TokensOf(s) == IF s = "s1" THEN {"u1"} ELSE Tokens \ {"u1"}
ValidTokensOf(s) == TokensOf(s) \cap Users

\* outcome of one store operation: it resolves or it rejects
IO == {"ok", "throw"}

\* payloads; NoData is a missing (undefined) payload, userId a user id the
\* client wrote into its own payload
NoData == [nil |-> TRUE, type |-> None, userId |-> None, val |-> None]
Data(type, uid, val) == [nil |-> FALSE, type |-> type, userId |-> uid, val |-> val]
DrawPayloads ==
    {NoData, Data("draw", "u9", None), Data("cursor", "u9", None),
     Data("clear", "u9", None)}
ChatPayloads == {NoData, Data(None, None, "hi")}
VoicePayloads == {NoData, Data(None, "u9", "on")}
RtcPayloads == {NoData, Data(None, "u9", "sdp")}

VARIABLES
    status,        \* per session: "new", "connecting", "open", "rejected", "closed"
    cred,          \* per session: the token its handshake carried
    connectError,  \* per session: the Error handed to next() by authenticateSocket
    userId,        \* socket.userId
    roomCode,      \* socket.roomCode
    members,       \* the adapter's rooms: room code -> sessions joined to it
    dbRooms,       \* Room collection: the room codes that exist
    participants,  \* Room.participants per room code
    dbBoards,      \* Board collection: the rooms that have a board document
    boardCleared,  \* per room: the user whose clearBoard last reset the board
    chats,         \* Chat collection: the documents created
    tasks,         \* per session: its handlers suspended at an await, oldest first
    crashed,       \* an exception escaped a listener: the process is down
    step,          \* the handler step just taken and its inputs
    emitted,       \* the packets that step emitted, in order
    joinedOK,      \* per session: the rooms it completed a successful join of
    voiceChat,     \* per session: the state of its VoiceChat component
    inbox,         \* per session: the packets delivered to its browser, oldest first
    outbox,        \* per session: the events its browser has emitted, oldest first
    messages,      \* per session: the _ids of the chat list of its RoomInterface
    chatLog,       \* the _ids of the Chat collection of the room, oldest first
    fetched,       \* per session: the history response on its way to the browser
    canvas,        \* Whiteboard: what the canvas of one browser shows
    history,       \* Whiteboard: its history state, the saved images
    historyIndex,  \* Whiteboard: its historyIndex state
    past           \* the canvas before each drawing action that is not undone

vars == <<status, cred, connectError, userId, roomCode, members, dbRooms,
          participants, dbBoards, boardCleared, chats, tasks, crashed,
          step, emitted, joinedOK, voiceChat, inbox, outbox, messages,
          chatLog, fetched, canvas, history, historyIndex, past>>

serverVars == <<status, cred, connectError, userId, roomCode, members, dbRooms,
                participants, dbBoards, boardCleared, chats, tasks, crashed,
                joinedOK>>
boardVars == <<canvas, history, historyIndex, past>>
chatVars == <<messages, chatLog, fetched>>
pageVars == <<chatVars, boardVars>>
clientVars == <<voiceChat, inbox, outbox, pageVars>>

sockVars == <<status, cred, connectError, userId>>
storeVars == <<dbRooms, participants, dbBoards, boardCleared, chats>>

\* ------------------------------------------------------------- primitives
Connected(s) == status[s] = "open"

\* the sockets a broadcast to room r reaches: the adapter skips the ids that
\* are no longer in the namespace
RoomSockets(m, r) == IF r \in DOMAIN m THEN {t \in m[r] : Connected(t)} ELSE {}

\* a broadcast that does not leave the sender out
ToOthersAndSelf(s, r) == RoomSockets(members, r)

\* socket.to(room): every socket of the room except the sender
\* a relay that waits for the suspended handlers
ToOthersWhenIdle(s, r) ==
    IF \A t \in Sessions : tasks[t] = <<>> THEN RoomSockets(members, r) \ {s} ELSE {}

ToOthers(s, r) == RoomSockets(members, r) \ {s}

\* io.to(room): every socket of the room
ToRoom(r) == RoomSockets(members, r)

\* socket.emit: the packet is written only while the connection is open
ToSelf(s) == IF Connected(s) THEN {s} ELSE {}

Packet(ev, s, r, to, uid, val, rec) ==
    [ev |-> ev, from |-> s, room |-> r, to |-> to, userId |-> uid,
     username |-> Username(uid), val |-> val, rec |-> rec, roomId |-> None]

\* no document
NoDoc == [roomId |-> None, sender |-> None, message |-> None]

\* an error notice sent with io.to(socket.roomCode) as well
ErrorToRoom(s, text) ==
    Packet("error", s, None, ToSelf(s) \cup ToRoom(roomCode[s]), None, text, NoDoc)

ErrorTo(s, text) == Packet("error", s, None, ToSelf(s), None, text, NoDoc)

Step(op, s, r, io, data) ==
    [op |-> op, sess |-> s, room |-> r, io |-> io, data |-> data, rec |-> NoDoc]

Task(kind, pc, r, data, rec) ==
    [kind |-> kind, pc |-> pc, room |-> r, data |-> data, rec |-> rec]

RECURSIVE SumLen(_, _)
SumLen(f, S) ==
    IF S = {} THEN 0
    ELSE LET x == CHOOSE y \in S : TRUE IN Len(f[x]) + SumLen(f, S \ {x})

InFlight == SumLen(tasks, Sessions)

RemoveAt(q, i) == SubSeq(q, 1, i - 1) \o SubSeq(q, i + 1, Len(q))

\* the handler of session s suspended at index i, of the given kind and place
At(s, i, kind, pc) ==
    /\ i \in 1..Len(tasks[s])
    /\ tasks[s][i].kind = kind
    /\ tasks[s][i].pc = pc

Suspend(s, t) == [tasks EXCEPT ![s] = Append(@, t)]
Finish(s, i) == [tasks EXCEPT ![s] = RemoveAt(@, i)]
Advance(s, i, pc) == [tasks EXCEPT ![s][i].pc = pc]

\* ------------------------------------------------------------------- Init
\* VoiceChat before it is rendered: useState(false), useState(false),
\* useState([]), useRef(null), useRef(new Map())
\* peers: the keys of peersRef; audio: the entries that have an audioElement;
\* shut: the entries whose connection is closed; orphans: the users for whom an
\* open connection exists that the map no longer holds
Unmounted ==
    [roomId |-> None, isMicEnabled |-> FALSE, seen |-> FALSE, stream |-> FALSE,
     peers |-> {}, audio |-> {}, shut |-> {}, orphans |-> {},
     connectedUsers |-> {}, isConnecting |-> FALSE, wait |-> None]

Init ==
    /\ status = [s \in Sessions |-> "new"]
    /\ cred = [s \in Sessions |-> None]
    /\ connectError = [s \in Sessions |-> None]
    /\ userId = [s \in Sessions |-> None]
    /\ roomCode = [s \in Sessions |-> None]
    /\ members = [r \in Rooms |-> {}]
    /\ dbRooms = Rooms
    /\ participants = [r \in Rooms |-> IF r = "R1" THEN {"u1"} ELSE Users]
    /\ dbBoards = {"R1"}
    /\ boardCleared = [r \in Rooms |-> None]
    /\ chats = {}
    /\ tasks = [s \in Sessions |-> <<>>]
    /\ crashed = FALSE
    /\ step = Step("init", None, None, None, NoData)
    /\ emitted = <<>>
    /\ joinedOK = [s \in Sessions |-> {}]
    /\ voiceChat = [s \in Sessions |-> Unmounted]
    /\ inbox = [s \in Sessions |-> <<>>]
    /\ outbox = [s \in Sessions |-> <<>>]
    /\ messages = [s \in Sessions |-> <<>>]
    /\ chatLog = <<>>
    /\ fetched = [s \in Sessions |-> None]
    /\ canvas = <<>>
    /\ history = <<>>
    /\ historyIndex = -1
    /\ past = <<>>

\* ----------------------------------------------------- authenticateSocket
\* jwt.verify: the user id the token is signed for, or it throws
VerifyThrows(tok) == tok = "forged"
DecodedId(tok) == tok

\* User.findById(decoded._id): the user document or null
FindUser(id) == IF id \in Users THEN id ELSE None

AuthError == "Authentication error"

\* the synchronous part of authenticateSocket: up to the await of User.findById
Connect(s, tok) ==
    /\ ~crashed
    /\ status[s] = "new"
    /\ cred' = [cred EXCEPT ![s] = tok]
    /\ IF tok = "missing" \/ VerifyThrows(tok)
       THEN /\ status' = [status EXCEPT ![s] = "rejected"]
            /\ connectError' = [connectError EXCEPT ![s] = AuthError]
       ELSE /\ status' = [status EXCEPT ![s] = "connecting"]
            /\ UNCHANGED connectError
    /\ step' = Step("Connect", s, None, None, NoData)
    /\ emitted' = <<>>
    /\ UNCHANGED <<userId, roomCode, members, storeVars, tasks, crashed, joinedOK>>

\* authenticateSocket without its "if (!user)" branch
AuthAcceptsNullUser(io, user) == io = "ok"

\* what authenticateSocket does with the result of User.findById
AuthAccepts(io, user) == io = "ok" /\ user # None

AuthResolve(s, io) ==
    /\ ~crashed
    /\ status[s] = "connecting"
    /\ LET user == FindUser(DecodedId(cred[s])) IN
       IF AuthAccepts(io, user)
       THEN /\ status' = [status EXCEPT ![s] = "open"]
            /\ userId' = [userId EXCEPT ![s] = user]
            /\ UNCHANGED connectError
       ELSE /\ status' = [status EXCEPT ![s] = "rejected"]
            /\ connectError' = [connectError EXCEPT ![s] = AuthError]
            /\ UNCHANGED userId
    /\ step' = Step("AuthResolve", s, None, io, NoData)
    /\ emitted' = <<>>
    /\ UNCHANGED <<cred, roomCode, members, storeVars, tasks, crashed, joinedOK>>

\* the listeners exist only on a socket that passed io.use: the 'connection'
\* callback registers them
Accepts(s) == ~crashed /\ status[s] = "open"

\* handlers without their room check
NoRoomUnchecked(s) == FALSE

\* if (!socket.roomCode) return;
NoRoom(s) == roomCode[s] = None

\* ---------------------------------------------------------------- join-room
JoinRoom(s, r) ==
    /\ Accepts(s)
    /\ tasks' = Suspend(s, Task("join-room", "findRoom", r, NoData, NoDoc))
    /\ step' = Step("JoinRoom", s, r, None, NoData)
    /\ emitted' = <<>>
    /\ UNCHANGED <<sockVars, roomCode, members, storeVars, crashed, joinedOK>>

\* the join handler without its "if (!room)" branch
JoinVerdictNoLookup(io, r, uid) ==
    IF io = "throw" THEN "Failed to join room"
    ELSE IF uid \notin participants[r] THEN "Access denied"
    ELSE "joined"

\* the join handler taking a failed lookup for a room that admits the session
JoinVerdictNoCatch(io, r, uid) ==
    IF io = "ok" /\ r \notin dbRooms THEN "Room not found"
    ELSE IF io = "ok" /\ uid \notin participants[r] THEN "Access denied"
    ELSE "joined"

\* the join handler without its participants check
JoinVerdictNoAcl(io, r, uid) ==
    IF io = "throw" THEN "Failed to join room"
    ELSE IF r \notin dbRooms THEN "Room not found"
    ELSE "joined"

\* the verdict of the handler once Room.findOne has settled
JoinVerdict(io, r, uid) ==
    IF io = "throw" THEN "Failed to join room"
    ELSE IF r \notin dbRooms THEN "Room not found"
    ELSE IF uid \notin participants[r] THEN "Access denied"
    ELSE "joined"

\* socket.join(roomCode): the adapter adds the id to the room and removes it
\* from no other room
SocketJoin(m, s, r) == [m EXCEPT ![r] = @ \cup {s}]

\* the join handler announcing with io.to(roomCode) instead of socket.to
JoinNoticesToAll(s, r, m) ==
    <<Packet("user-joined", s, r, RoomSockets(m, r), userId[s], None, NoDoc)>>

\* the packets a granted join emits, m being the rooms after socket.join
JoinNotices(s, r, m) ==
    <<Packet("user-joined", s, r, RoomSockets(m, r) \ {s}, userId[s], None, NoDoc)>>

JoinRoomResolve(s, i, io) ==
    /\ ~crashed
    /\ At(s, i, "join-room", "findRoom")
    /\ tasks' = Finish(s, i)
    /\ LET r == tasks[s][i].room
           verdict == JoinVerdict(io, r, userId[s]) IN
       /\ IF verdict = "joined"
          THEN /\ members' = SocketJoin(members, s, r)
               /\ roomCode' = [roomCode EXCEPT ![s] = r]
               /\ joinedOK' = [joinedOK EXCEPT ![s] = @ \cup {r}]
               /\ emitted' = JoinNotices(s, r, SocketJoin(members, s, r))
          ELSE /\ emitted' = <<ErrorTo(s, verdict)>>
               /\ UNCHANGED <<members, roomCode, joinedOK>>
       /\ step' = Step("JoinRoomResolve", s, r, io, NoData)
    /\ UNCHANGED <<sockVars, storeVars, crashed>>

\* ----------------------------------------------------------- drawing-update
\* { userId: socket.userId, ...data }: the payload's own userId survives
StampClientFirst(data, uid) ==
    [data EXCEPT !.nil = FALSE, !.userId = IF data.nil THEN uid ELSE data.userId]

\* { ...data, userId: socket.userId }: the spread of a missing payload adds
\* nothing, and the session's id replaces whatever userId the payload held
Stamp(data, uid) == [data EXCEPT !.nil = FALSE, !.userId = uid]

\* a handler that resets the snapshot on every drawing-update
IsClearAlways(data) == TRUE

\* data.type === 'clear'
IsClear(data) == data.type = "clear"

\* the relay with io.to(socket.roomCode), which reaches the sender too
DrawingRelayToRoom(s, data) ==
    Packet("drawing-update", s, roomCode[s], ToRoom(roomCode[s]),
           userId[s], data.type, NoDoc)

DrawingRelay(s, data) ==
    Packet("drawing-update", s, roomCode[s], ToOthers(s, roomCode[s]),
           Stamp(data, userId[s]).userId, Stamp(data, userId[s]).type, NoDoc)

\* a handler that relays a clear only once the snapshot is reset
DrawingEmitsAfterReset(s, data) ==
    IF IsClear(data) THEN <<>> ELSE <<DrawingRelay(s, data)>>

\* what the handler emits before its first await: the relay, ahead of the
\* test of data.type
DrawingEmits(s, data) == <<DrawingRelay(s, data)>>

DrawingUpdate(s, data) ==
    /\ Accepts(s)
    /\ IF NoRoom(s)
       THEN /\ emitted' = <<>>
            /\ UNCHANGED tasks
       ELSE IF data.nil
       THEN \* data.type throws after the relay; the catch reports it
            /\ emitted' = <<DrawingRelay(s, data), ErrorTo(s, "Failed to update drawing")>>
            /\ UNCHANGED tasks
       ELSE IF IsClear(data)
       THEN /\ emitted' = DrawingEmits(s, data)
            /\ tasks' = Suspend(s, Task("drawing-update", "findRoom", roomCode[s], data, NoDoc))
       ELSE /\ emitted' = DrawingEmits(s, data)
            /\ UNCHANGED tasks
    /\ step' = Step("DrawingUpdate", s, roomCode[s], None, data)
    /\ UNCHANGED <<sockVars, roomCode, members, storeVars, crashed, joinedOK>>

\* Room.findOne({ roomId: socket.roomCode }) of a clear has settled
DrawingFindRoom(s, i, io) ==
    /\ ~crashed
    /\ At(s, i, "drawing-update", "findRoom")
    /\ LET t == tasks[s][i] IN
       /\ IF io = "throw"
          THEN /\ emitted' = <<ErrorTo(s, "Failed to update drawing")>>
               /\ tasks' = Finish(s, i)
          ELSE /\ emitted' = <<>>
               /\ tasks' = IF t.room \in dbRooms THEN Advance(s, i, "findBoard")
                           ELSE Finish(s, i)
       /\ step' = Step("DrawingFindRoom", s, t.room, io, t.data)
    /\ UNCHANGED <<sockVars, roomCode, members, storeVars, crashed, joinedOK>>

\* Board.findOne({ roomId: room._id }) has settled
DrawingFindBoard(s, i, io) ==
    /\ ~crashed
    /\ At(s, i, "drawing-update", "findBoard")
    /\ LET t == tasks[s][i] IN
       /\ IF io = "throw"
          THEN /\ emitted' = <<ErrorTo(s, "Failed to update drawing")>>
               /\ tasks' = Finish(s, i)
          ELSE /\ emitted' = <<>>
               /\ tasks' = IF t.room \in dbBoards THEN Advance(s, i, "clearBoard")
                           ELSE Finish(s, i)
       /\ step' = Step("DrawingFindBoard", s, t.room, io, t.data)
    /\ UNCHANGED <<sockVars, roomCode, members, storeVars, crashed, joinedOK>>

\* board.clearBoard(socket.userId) has settled
DrawingClearBoard(s, i, io) ==
    /\ ~crashed
    /\ At(s, i, "drawing-update", "clearBoard")
    /\ tasks' = Finish(s, i)
    /\ LET t == tasks[s][i] IN
       /\ IF io = "throw"
          THEN /\ emitted' = <<ErrorTo(s, "Failed to update drawing")>>
               /\ UNCHANGED boardCleared
          ELSE /\ emitted' = <<>>
               /\ boardCleared' = [boardCleared EXCEPT ![t.room] = userId[s]]
       /\ step' = Step("DrawingClearBoard", s, t.room, io, t.data)
    /\ UNCHANGED <<sockVars, roomCode, members, dbRooms, participants, dbBoards,
                   chats, crashed, joinedOK>>

\* ------------------------------------------------------------- chat-message
ChatMessage(s, msg) ==
    /\ Accepts(s)
    /\ IF NoRoom(s)
       THEN UNCHANGED tasks
       ELSE tasks' = Suspend(s, Task("chat-message", "findRoom", roomCode[s], msg, NoDoc))
    /\ emitted' = <<>>
    /\ step' = Step("ChatMessage", s, roomCode[s], None, msg)
    /\ UNCHANGED <<sockVars, roomCode, members, storeVars, crashed, joinedOK>>

\* a catch clause that reports the failure to the whole room
ChatCatchToRoom(s) ==
    <<Packet("error", s, None, ToRoom(roomCode[s]), None, "Failed to send message", NoDoc)>>

\* the catch clause of the chat handler
ChatCatch(s) == <<ErrorTo(s, "Failed to send message")>>

\* Room.findOne has settled; on a room, message.text is read and Chat.create
\* is called
ChatFindRoom(s, i, io) ==
    /\ ~crashed
    /\ At(s, i, "chat-message", "findRoom")
    /\ LET t == tasks[s][i] IN
       /\ IF io = "throw"
          THEN /\ emitted' = ChatCatch(s)
               /\ tasks' = Finish(s, i)
          ELSE IF t.room \notin dbRooms
          THEN /\ emitted' = <<ErrorTo(s, "Room not found")>>
               /\ tasks' = Finish(s, i)
          ELSE IF t.data.nil
          THEN /\ emitted' = ChatCatch(s)
               /\ tasks' = Finish(s, i)
          ELSE /\ emitted' = <<>>
               /\ tasks' = Advance(s, i, "create")
       /\ step' = Step("ChatFindRoom", s, t.room, io, t.data)
    /\ UNCHANGED <<sockVars, roomCode, members, storeVars, crashed, joinedOK>>

\* the document Chat.create stores
ChatDoc(s, t) == [roomId |-> t.room, sender |-> userId[s], message |-> t.data.val]

\* Chat.create has settled
ChatCreate(s, i, io) ==
    /\ ~crashed
    /\ At(s, i, "chat-message", "create")
    /\ LET t == tasks[s][i] IN
       /\ IF io = "throw"
          THEN /\ emitted' = ChatCatch(s)
               /\ tasks' = Finish(s, i)
               /\ UNCHANGED chats
          ELSE /\ emitted' = <<>>
               /\ chats' = chats \cup {ChatDoc(s, t)}
               /\ tasks' = [tasks EXCEPT ![s][i].pc = "findById",
                                         ![s][i].rec = ChatDoc(s, t)]
       /\ step' = Step("ChatCreate", s, t.room, io, t.data)
    /\ UNCHANGED <<sockVars, roomCode, members, dbRooms, participants, dbBoards,
                   boardCleared, crashed, joinedOK>>

\* the room io.to(socket.roomCode) addresses once the populated message is there
ChatTarget(s, t) == roomCode[s]

\* a broadcast that is dropped when the sender has gone meanwhile
ChatRelayWhileOpen(s, t) ==
    [Packet("chat-message", s, ChatTarget(s, t),
            IF Connected(s) THEN ToRoom(ChatTarget(s, t)) ELSE {},
            t.rec.sender, t.rec.message, t.rec)
     EXCEPT !.roomId = t.rec.roomId]

\* populatedMessage: the stored document with its sender's display fields
ChatRelay(s, t) ==
    [Packet("chat-message", s, ChatTarget(s, t), ToRoom(ChatTarget(s, t)),
            t.rec.sender, t.rec.message, t.rec)
     EXCEPT !.roomId = t.rec.roomId]

\* Chat.findById(...).populate(...) has settled
ChatFindById(s, i, io) ==
    /\ ~crashed
    /\ At(s, i, "chat-message", "findById")
    /\ tasks' = Finish(s, i)
    /\ LET t == tasks[s][i] IN
       /\ emitted' = IF io = "throw"
                     THEN ChatCatch(s)
                     ELSE <<ChatRelay(s, t)>>
       /\ step' = [Step("ChatFindById", s, t.room, io, t.data) EXCEPT !.rec = t.rec]
    /\ UNCHANGED <<sockVars, roomCode, members, storeVars, crashed, joinedOK>>

\* ------------------------------------------------- voice and WebRTC handlers
\* a listener without try/catch: reading a field of a missing payload throws
\* out of the listener and takes the process down
SyncRelay(op, ev, s, data, readsData) ==
    /\ Accepts(s)
    /\ IF ~NoRoom(s) /\ readsData /\ data.nil
       THEN \* the process exits: every socket and suspended handler goes with it
            /\ crashed' = TRUE
            /\ status' = [t \in Sessions |-> "closed"]
            /\ roomCode' = [t \in Sessions |-> None]
            /\ members' = [r \in Rooms |-> {}]
            /\ tasks' = [t \in Sessions |-> <<>>]
            /\ joinedOK' = [t \in Sessions |-> {}]
            /\ emitted' = <<>>
       ELSE /\ emitted' = IF NoRoom(s) THEN <<>>
                         ELSE <<Packet(ev, s, roomCode[s], ToOthers(s, roomCode[s]),
                                       userId[s], data.val, NoDoc)>>
            /\ UNCHANGED <<crashed, status, roomCode, members, tasks, joinedOK>>
    /\ step' = Step(op, s, roomCode[s], None, data)
    /\ UNCHANGED <<cred, connectError, userId, storeVars>>

VoiceToggle(s, data) == SyncRelay("VoiceToggle", "voice-toggle", s, data, TRUE)
VoiceReady(s, data) == SyncRelay("VoiceReady", "voice-ready", s, [data EXCEPT !.val = None], FALSE)
WebrtcOffer(s, data) == SyncRelay("WebrtcOffer", "webrtc-offer", s, data, TRUE)
WebrtcAnswer(s, data) == SyncRelay("WebrtcAnswer", "webrtc-answer", s, data, TRUE)
WebrtcIceCandidate(s, data) ==
    SyncRelay("WebrtcIceCandidate", "webrtc-ice-candidate", s, data, TRUE)

\* --------------------------------------------------------------- disconnect
\* the socket has left all its rooms when the 'disconnect' listener runs
LeaveAll(m, s) == [r \in Rooms |-> m[r] \ {s}]

\* a disconnect listener that tells nobody
LeaveNoticesNone(s) == <<>>

\* if (socket.roomCode) socket.to(socket.roomCode).emit('user-left', ...)
LeaveNotices(s) ==
    IF roomCode[s] # None
    THEN <<Packet("user-left", s, roomCode[s], ToOthers(s, roomCode[s]),
                  userId[s], None, NoDoc)>>
    ELSE <<>>

Disconnect(s) ==
    /\ ~crashed
    /\ status[s] = "open"
    /\ status' = [status EXCEPT ![s] = "closed"]
    /\ members' = LeaveAll(members, s)
    /\ emitted' = LeaveNotices(s)
    /\ joinedOK' = [joinedOK EXCEPT ![s] = {}]
    /\ step' = Step("Disconnect", s, roomCode[s], None, NoData)
    /\ UNCHANGED <<cred, connectError, userId, roomCode, storeVars, tasks, crashed>>

\* ------------------------------------- the stores change behind the relay
\* room management (REST) records a user as participant of a room
AddParticipant(r, u) ==
    /\ ~crashed
    /\ r \in dbRooms /\ u \notin participants[r]
    /\ participants' = [participants EXCEPT ![r] = @ \cup {u}]
    /\ step' = Step("AddParticipant", None, r, None, NoData)
    /\ emitted' = <<>>
    /\ UNCHANGED <<sockVars, roomCode, members, dbRooms, dbBoards, boardCleared,
                   chats, tasks, crashed, joinedOK>>

\* a room document disappears from the store
DeleteRoom(r) ==
    /\ ~crashed
    /\ r \in dbRooms
    /\ dbRooms' = dbRooms \ {r}
    /\ step' = Step("DeleteRoom", None, r, None, NoData)
    /\ emitted' = <<>>
    /\ UNCHANGED <<sockVars, roomCode, members, participants, dbBoards, boardCleared,
                   chats, tasks, crashed, joinedOK>>

\* ------------------------------------------------- the browser: VoiceChat
\* the events the VoiceChat listeners are registered for
VoiceEvents ==
    {"user-joined", "user-left", "voice-ready", "webrtc-offer", "webrtc-answer"}

Event(ev, uid, val) == [ev |-> ev, userId |-> uid, val |-> val]

\* the packets of pkts addressed to session t, as its listeners get them
Arrivals(pkts, t) ==
    LET Mine(p) == t \in p.to /\ p.ev \in VoiceEvents
        ToEvent(p) == Event(p.ev, p.userId, p.val)
        Conv[k \in 0..Len(pkts)] ==
            IF k = 0 THEN <<>>
            ELSE IF Mine(pkts[k]) THEN Append(Conv[k - 1], ToEvent(pkts[k]))
            ELSE Conv[k - 1]
    IN Conv[Len(pkts)]

\* socket.io hands each packet to the listeners of its recipient, in order; a
\* browser whose VoiceChat is not rendered has no listener for it
Deliver(box, pkts) ==
    [t \in Sessions |->
        IF voiceChat[t].roomId = None THEN box[t] ELSE box[t] \o Arrivals(pkts, t)]

\* every browser can take one more packet
InboxRoom == \A t \in Sessions : Len(inbox[t]) < MaxInbox

\* the browser of s can emit one more event
OutboxRoom(s) == Len(outbox[s]) < MaxInbox

ClientStep(op, s, e) ==
    Step(op, s, voiceChat[s].roomId, None, Data(e.ev, e.userId, e.val))

\* an SDP offer or answer: whether it carries an audio track, and the user
\* whose connection it was made for
Sdp(audio, for) == [audio |-> audio, for |-> for]

\* createPeerConnection: a new RTCPeerConnection is stored under the user id,
\* in place of whatever the map held for it
CreatePeerConnection(v, uid) ==
    [v EXCEPT !.orphans = IF uid \in v.peers \ v.shut THEN @ \cup {uid} ELSE @,
              !.peers = @ \cup {uid},
              !.audio = @ \ {uid},
              !.shut = @ \ {uid}]

\* ontrack: the audio element goes to the entry of the user, who is listed as
\* connected
OnTrack(v, uid) ==
    [v EXCEPT !.peers = @ \cup {uid},
              !.audio = @ \cup {uid},
              !.connectedUsers = @ \cup {uid}]

\* cleanup completes when every entry has its audioElement:
\* peer.audioElement.remove() throws for an entry without one
CleanupCompletes(v) == v.peers \subseteq v.audio

\* the VoiceChat state after a cleanup that completes: every connection
\* closed, the map cleared
CleanedUp(v) == [v EXCEPT !.peers = {}, !.audio = {}, !.shut = {}]

\* what is left after a cleanup that throws at entry bad, having closed the
\* entries before it and the connection of bad itself: the map and its
\* connections, of a component that is no longer rendered
CleanupThrown(v, before, bad) ==
    [Unmounted EXCEPT !.peers = v.peers,
                      !.audio = v.audio,
                      !.shut = v.shut \cup before \cup {bad},
                      !.orphans = v.orphans]

\* the room page renders: RoomInterface emits join-room for its roomId and the
\* effect of VoiceChat registers the listeners of this render, which see the
\* isMicEnabled of this render from then on
MountVoiceChat(s, r) ==
    /\ Connected(s)
    /\ voiceChat[s].roomId = None
    /\ OutboxRoom(s)
    /\ voiceChat' = [voiceChat EXCEPT ![s] = [Unmounted EXCEPT !.roomId = r]]
    /\ outbox' = [outbox EXCEPT ![s] = Append(@, Event("join-room", None, r))]
    /\ step' = ClientStep("MountVoiceChat", s, Event("join-room", None, r))
    /\ emitted' = <<>>
    /\ UNCHANGED <<serverVars, inbox, pageVars>>

\* the roomId prop changes: the effect cleans up (listeners off, tracks
\* stopped, peers closed and cleared; the stream ref and the React state stay)
\* and runs again, and RoomInterface emits join-room for the new room
ChangeRoom(s, r) ==
    /\ Connected(s)
    /\ voiceChat[s].roomId \notin {None, r}
    /\ voiceChat[s].wait = None
    /\ CleanupCompletes(voiceChat[s])
    /\ OutboxRoom(s)
    /\ voiceChat' = [voiceChat EXCEPT ![s] =
                       [CleanedUp(voiceChat[s]) EXCEPT
                          !.roomId = r, !.seen = voiceChat[s].isMicEnabled]]
    /\ outbox' = [outbox EXCEPT ![s] = Append(@, Event("join-room", None, r))]
    /\ step' = ClientStep("ChangeRoom", s, Event("join-room", None, r))
    /\ emitted' = <<>>
    /\ UNCHANGED <<serverVars, inbox, pageVars>>

\* the same change of room when cleanup throws: the error leaves the effect
\* cleanup, React takes the component down with what the map still holds, and
\* the join-room of RoomInterface has gone out or not
ChangeRoomThrows(s, r, joins) ==
    /\ Connected(s)
    /\ voiceChat[s].roomId \notin {None, r}
    /\ voiceChat[s].wait = None
    /\ ~CleanupCompletes(voiceChat[s])
    /\ joins => OutboxRoom(s)
    /\ \E bad \in voiceChat[s].peers \ voiceChat[s].audio :
       \E before \in SUBSET (voiceChat[s].peers \cap voiceChat[s].audio) :
          voiceChat' = [voiceChat EXCEPT ![s] =
                          CleanupThrown(voiceChat[s], before, bad)]
    /\ outbox' = IF joins
                 THEN [outbox EXCEPT ![s] = Append(@, Event("join-room", None, r))]
                 ELSE outbox
    /\ step' = ClientStep("ChangeRoomThrows", s, Event("join-room", None, r))
    /\ emitted' = <<>>
    /\ UNCHANGED <<serverVars, inbox, pageVars>>

\* toggleMicrophone up to its await, or all of its disabling branch
ToggleMicrophone(s) ==
    /\ voiceChat[s].roomId # None
    /\ ~voiceChat[s].isConnecting
    /\ voiceChat[s].wait = None
    /\ voiceChat' =
         IF ~voiceChat[s].isMicEnabled
         THEN [voiceChat EXCEPT ![s].isConnecting = TRUE, ![s].wait = "media"]
         ELSE [voiceChat EXCEPT ![s].stream = FALSE,
                                ![s].peers = {},
                                ![s].audio = {},
                                ![s].shut = {},
                                ![s].connectedUsers = {},
                                ![s].isMicEnabled = FALSE]
    /\ step' = ClientStep("ToggleMicrophone", s, Event(None, None, None))
    /\ emitted' = <<>>
    /\ UNCHANGED <<serverVars, inbox, outbox, pageVars>>

\* a toggleMicrophone without its finally block
GetUserMediaNoFinally(s, io) ==
    /\ voiceChat[s].wait = "media"
    /\ voiceChat' =
         IF io = "ok"
         THEN [voiceChat EXCEPT ![s].stream = TRUE,
                                ![s].isMicEnabled = TRUE,
                                ![s].isConnecting = FALSE,
                                ![s].wait = "timer"]
         ELSE [voiceChat EXCEPT ![s].wait = None]
    /\ step' = [ClientStep("GetUserMedia", s, Event(None, None, None)) EXCEPT !.io = io]
    /\ emitted' = <<>>
    /\ UNCHANGED <<serverVars, inbox, outbox, pageVars>>

\* navigator.mediaDevices.getUserMedia has settled: the stream is kept and the
\* timer set, or the catch block alerts; finally resets isConnecting
GetUserMedia(s, io) ==
    /\ voiceChat[s].wait = "media"
    /\ voiceChat' =
         IF io = "ok"
         THEN [voiceChat EXCEPT ![s].stream = TRUE,
                                ![s].isMicEnabled = TRUE,
                                ![s].isConnecting = FALSE,
                                ![s].wait = "timer"]
         ELSE [voiceChat EXCEPT ![s].isConnecting = FALSE, ![s].wait = None]
    /\ step' = [ClientStep("GetUserMedia", s, Event(None, None, None)) EXCEPT !.io = io]
    /\ emitted' = <<>>
    /\ UNCHANGED <<serverVars, inbox, outbox, pageVars>>

\* the 100 ms timer of toggleMicrophone: socket.emit('voice-ready', ...)
VoiceReadyTimer(s) ==
    /\ voiceChat[s].wait = "timer"
    /\ OutboxRoom(s)
    /\ voiceChat' = [voiceChat EXCEPT ![s].wait = None]
    /\ outbox' = [outbox EXCEPT ![s] = Append(@, Event("voice-ready", userId[s], None))]
    /\ step' = ClientStep("VoiceReadyTimer", s, Event("voice-ready", userId[s], None))
    /\ emitted' = <<>>
    /\ UNCHANGED <<serverVars, inbox, pageVars>>

\* the listeners that answer every notice, whatever the microphone was when
\* they were registered
OffersAlways(s, uid) == uid # userId[s]

\* if (data.userId === userId) return;
\* if (isMicEnabled && localStreamRef.current) await createOfferForUser(...)
\* with the isMicEnabled of the render that registered the listener
Offers(s, uid) == uid # userId[s] /\ voiceChat[s].seen /\ voiceChat[s].stream

\* handleUserJoined or handleVoiceReady runs for the oldest packet; when it
\* offers, createOfferForUser stores a connection for the user and emits the
\* offer
HandleNotice(op, ev, s) ==
    /\ inbox[s] # <<>>
    /\ Head(inbox[s]).ev = ev
    /\ LET e == Head(inbox[s]) IN
       /\ IF Offers(s, e.userId)
          THEN /\ OutboxRoom(s)
               /\ voiceChat' = [voiceChat EXCEPT ![s] =
                                  CreatePeerConnection(voiceChat[s], e.userId)]
               /\ outbox' = [outbox EXCEPT ![s] =
                               Append(@, Event("webrtc-offer", None,
                                               Sdp(TRUE, e.userId)))]
          ELSE UNCHANGED <<voiceChat, outbox>>
       /\ step' = ClientStep(op, s, e)
    /\ inbox' = [inbox EXCEPT ![s] = Tail(@)]
    /\ emitted' = <<>>
    /\ UNCHANGED <<serverVars, pageVars>>

HandleUserJoined(s) == HandleNotice("HandleUserJoined", "user-joined", s)
HandleVoiceReady(s) == HandleNotice("HandleVoiceReady", "voice-ready", s)

\* handleOffer: a connection for the offering user, whose track arrives with
\* the offer, and an answer that carries the local track if there is a stream
HandleOffer(s) ==
    /\ inbox[s] # <<>>
    /\ Head(inbox[s]).ev = "webrtc-offer"
    /\ LET e == Head(inbox[s]) IN
       /\ IF e.userId # userId[s]
          THEN /\ OutboxRoom(s)
               /\ voiceChat' = [voiceChat EXCEPT ![s] =
                                  LET v == CreatePeerConnection(voiceChat[s], e.userId)
                                  IN IF e.val.audio THEN OnTrack(v, e.userId) ELSE v]
               /\ outbox' = [outbox EXCEPT ![s] =
                               Append(@, Event("webrtc-answer", None,
                                               Sdp(voiceChat[s].stream, e.userId)))]
          ELSE UNCHANGED <<voiceChat, outbox>>
       /\ step' = ClientStep("HandleOffer", s, e)
    /\ inbox' = [inbox EXCEPT ![s] = Tail(@)]
    /\ emitted' = <<>>
    /\ UNCHANGED <<serverVars, pageVars>>

\* the connection handleAnswer finds for the sender of an answer and can
\* apply it to: peersRef.current.get(data.userId), unless it is closed
Applies(s, e) ==
    /\ e.userId # userId[s]
    /\ e.userId \in voiceChat[s].peers \ voiceChat[s].shut

\* handleAnswer: applied to the connection stored for the answering user, if
\* there is one; a track in the answer arrives with it
HandleAnswer(s) ==
    /\ inbox[s] # <<>>
    /\ Head(inbox[s]).ev = "webrtc-answer"
    /\ LET e == Head(inbox[s]) IN
       /\ voiceChat' =
            IF Applies(s, e) /\ e.val.audio
            THEN [voiceChat EXCEPT ![s] = OnTrack(voiceChat[s], e.userId)]
            ELSE voiceChat
       /\ step' = ClientStep("HandleAnswer", s, e)
    /\ inbox' = [inbox EXCEPT ![s] = Tail(@)]
    /\ emitted' = <<>>
    /\ UNCHANGED <<serverVars, outbox, pageVars>>

\* the oldest event the browser of s has emitted is of kind ev and can go out
Emitted(s, ev) ==
    /\ outbox[s] # <<>>
    /\ Head(outbox[s]).ev = ev
    /\ InboxRoom

\* that event has reached the relay, whose listener has run: the packets it
\* emitted reach the browsers
Transmit(s) ==
    /\ outbox' = [outbox EXCEPT ![s] = Tail(@)]
    /\ inbox' = Deliver(inbox, emitted')
    /\ UNCHANGED <<voiceChat, pageVars>>

SendJoinRoom(s) ==
    /\ Emitted(s, "join-room")
    /\ InFlight < MaxInFlight
    /\ JoinRoom(s, Head(outbox[s]).val)
    /\ Transmit(s)

SendVoiceReady(s) ==
    /\ Emitted(s, "voice-ready")
    /\ VoiceReady(s, Data(None, Head(outbox[s]).userId, None))
    /\ Transmit(s)

SendWebRTCOffer(s) ==
    /\ Emitted(s, "webrtc-offer")
    /\ WebrtcOffer(s, Data(None, None, Head(outbox[s]).val))
    /\ Transmit(s)

SendWebRTCAnswer(s) ==
    /\ Emitted(s, "webrtc-answer")
    /\ WebrtcAnswer(s, Data(None, None, Head(outbox[s]).val))
    /\ Transmit(s)

\* Room.findOne of a join-room has settled and its notices reach the browsers
JoinRoomDelivered(s, i, io) ==
    /\ InboxRoom
    /\ JoinRoomResolve(s, i, io)
    /\ inbox' = Deliver(inbox, emitted')
    /\ UNCHANGED <<voiceChat, outbox, pageVars>>

\* ------------------------------------------------ RoomInterface: the chat list
\* the _ids of the chat documents a room may hold
MsgIds == {"m1", "m2", "m3"}

\* what GET /rooms/:id/messages may answer: documents of the collection, each
\* once
Histories ==
    {h \in UNION {[1..n -> MsgIds] : n \in 0..Cardinality(MsgIds)} :
        \A a, b \in DOMAIN h : a # b => h[a] # h[b]}

\* a list that takes every message it is handed
AppendAlways(prev, id) == Append(prev, id)

\* setMessages(prev => prev.some(msg => msg._id === message._id)
\*                       ? prev : [...prev, message])
AppendUnique(prev, id) ==
    IF \E k \in DOMAIN prev : prev[k] = id THEN prev ELSE Append(prev, id)

\* the chat-message listener of RoomInterface runs for a message with this _id
HandleChatMessage(s, id) ==
    /\ messages' = [messages EXCEPT ![s] = AppendUnique(@, id)]
    /\ step' = Step("HandleChatMessage", s, None, None, Data(None, None, id))
    /\ emitted' = <<>>
    /\ UNCHANGED <<serverVars, voiceChat, inbox, outbox, chatLog, fetched, boardVars>>

\* loadMessages: the history request has settled
LoadMessages(s, hist, io) ==
    /\ messages' = IF io = "ok" THEN [messages EXCEPT ![s] = hist] ELSE messages
    /\ step' = Step("LoadMessages", s, None, io, NoData)
    /\ emitted' = <<>>
    /\ UNCHANGED <<serverVars, voiceChat, inbox, outbox, chatLog, fetched, boardVars>>

\* the Chat collection holds a document with this _id
Stored(id) == \E k \in DOMAIN chatLog : chatLog[k] = id

\* Chat.create of the relay stores a new document; its broadcast follows
CreateChat(id) ==
    /\ ~Stored(id)
    /\ chatLog' = Append(chatLog, id)
    /\ step' = Step("CreateChat", None, None, "ok", Data(None, None, id))
    /\ emitted' = <<>>
    /\ UNCHANGED <<serverVars, voiceChat, inbox, outbox, messages, fetched, boardVars>>

\* loadMessages up to its await: the API reads the collection and answers
LoadMessagesRequest(s) ==
    /\ fetched[s] = None
    /\ fetched' = [fetched EXCEPT ![s] = chatLog]
    /\ step' = Step("LoadMessagesRequest", s, None, None, NoData)
    /\ emitted' = <<>>
    /\ UNCHANGED <<serverVars, voiceChat, inbox, outbox, messages, chatLog, boardVars>>

\* the rest of loadMessages: the response is there, or the request has failed
LoadMessagesResponse(s, io) ==
    /\ fetched[s] # None
    /\ messages' = IF io = "ok" THEN [messages EXCEPT ![s] = fetched[s]] ELSE messages
    /\ fetched' = [fetched EXCEPT ![s] = None]
    /\ step' = Step("LoadMessagesResponse", s, None, io, NoData)
    /\ emitted' = <<>>
    /\ UNCHANGED <<serverVars, voiceChat, inbox, outbox, chatLog, boardVars>>

\* ------------------------------------------------------------- Whiteboard
\* what a completed drawing action is: a pen stroke, a shape, a clear
Actions == {"stroke", "shape", "clear"}

\* the canvas after the action: a clear wipes it, anything else adds to it
Paint(img, kind) == IF kind = "clear" THEN <<>> ELSE Append(img, kind)

\* the 100 ms timer of the mount effect: setHistory([imageData]),
\* setHistoryIndex(0); it runs before the user can act
SaveInitial ==
    /\ historyIndex = -1
    /\ history' = <<canvas>>
    /\ historyIndex' = 0
    /\ step' = Step("SaveInitial", None, None, None, NoData)
    /\ emitted' = <<>>
    /\ UNCHANGED <<serverVars, voiceChat, inbox, outbox, chatVars, canvas, past>>

\* setHistory(prev => prev.slice(0, historyIndex + 1).concat(imageData))
SaveToHistory(h, i, img) == Append(SubSeq(h, 1, i + 1), img)

\* startDrawing ... stopDrawing, or clearCanvas: the canvas as it is goes to
\* the history, then the action paints
Draw(kind) ==
    /\ historyIndex >= 0
    /\ Len(history) < MaxHistory
    /\ history' = SaveToHistory(history, historyIndex, canvas)
    /\ historyIndex' = historyIndex + 1
    /\ canvas' = Paint(canvas, kind)
    /\ past' = Append(past, canvas)
    /\ step' = Step("Draw", None, None, None, Data(kind, None, None))
    /\ emitted' = <<>>
    /\ UNCHANGED <<serverVars, voiceChat, inbox, outbox, chatVars>>

\* undo: the image at historyIndex - 1 is drawn over the cleared canvas
Undo ==
    /\ historyIndex > 0
    /\ historyIndex' = historyIndex - 1
    /\ canvas' = history[historyIndex]
    /\ past' = IF past = <<>> THEN past ELSE SubSeq(past, 1, Len(past) - 1)
    /\ step' = Step("Undo", None, None, None, NoData)
    /\ emitted' = <<>>
    /\ UNCHANGED <<serverVars, voiceChat, inbox, outbox, chatVars, history>>

\* ----------------------------------------------------------- specifications
\* the event would leave a handler suspended at an await
Suspends(s, kind, data) ==
    CASE kind = "join-room" -> TRUE
      [] kind = "chat-message" -> ~NoRoom(s)
      [] kind = "drawing-update" -> ~NoRoom(s) /\ ~data.nil /\ IsClear(data)
      [] OTHER -> FALSE

\* the relay takes the event while fewer than max handlers are suspended
Within(max, s, kind, data) == Suspends(s, kind, data) => InFlight < max

\* handshakes with any token, over an identity store that may fail
Handshake ==
    \/ \E s \in Sessions : \E tok \in TokensOf(s) : Connect(s, tok)
          /\ UNCHANGED clientVars
    \/ \E s \in Sessions, io \in IO : AuthResolve(s, io)
          /\ UNCHANGED clientVars

\* handshakes of clients that hold a valid token, over an identity store that
\* answers
Admission ==
    \/ \E s \in Sessions : \E tok \in ValidTokensOf(s) : Connect(s, tok)
          /\ UNCHANGED clientVars
    \/ \E s \in Sessions : AuthResolve(s, "ok")
          /\ UNCHANGED clientVars

Joining(max) ==
    \/ \E s \in Sessions, r \in Rooms :
          Within(max, s, "join-room", NoData) /\ JoinRoom(s, r)
          /\ UNCHANGED clientVars
    \/ \E s \in Sessions, io \in IO : \E i \in DOMAIN tasks[s] : JoinRoomResolve(s, i, io)
          /\ UNCHANGED clientVars

Leaving == \E s \in Sessions : Disconnect(s) /\ UNCHANGED clientVars

Drawing(max, payloads) ==
    \/ \E s \in Sessions, d \in payloads :
          Within(max, s, "drawing-update", d) /\ DrawingUpdate(s, d)
          /\ UNCHANGED clientVars
    \/ \E s \in Sessions, io \in IO : \E i \in DOMAIN tasks[s] : DrawingFindRoom(s, i, io)
          /\ UNCHANGED clientVars
    \/ \E s \in Sessions, io \in IO : \E i \in DOMAIN tasks[s] : DrawingFindBoard(s, i, io)
          /\ UNCHANGED clientVars
    \/ \E s \in Sessions, io \in IO : \E i \in DOMAIN tasks[s] : DrawingClearBoard(s, i, io)
          /\ UNCHANGED clientVars

Chatting(max, payloads) ==
    \/ \E s \in Sessions, m \in payloads :
          Within(max, s, "chat-message", m) /\ ChatMessage(s, m)
          /\ UNCHANGED clientVars
    \/ \E s \in Sessions, io \in IO : \E i \in DOMAIN tasks[s] : ChatFindRoom(s, i, io)
          /\ UNCHANGED clientVars
    \/ \E s \in Sessions, io \in IO : \E i \in DOMAIN tasks[s] : ChatCreate(s, i, io)
          /\ UNCHANGED clientVars
    \/ \E s \in Sessions, io \in IO : \E i \in DOMAIN tasks[s] : ChatFindById(s, i, io)
          /\ UNCHANGED clientVars

Signaling(voice, rtc) ==
    \/ \E s \in Sessions, d \in voice : VoiceToggle(s, d)
          /\ UNCHANGED clientVars
    \/ \E s \in Sessions, d \in voice : VoiceReady(s, d)
          /\ UNCHANGED clientVars
    \/ \E s \in Sessions, d \in rtc : WebrtcOffer(s, d)
          /\ UNCHANGED clientVars
    \/ \E s \in Sessions, d \in rtc : WebrtcAnswer(s, d)
          /\ UNCHANGED clientVars
    \/ \E s \in Sessions, d \in rtc : WebrtcIceCandidate(s, d)
          /\ UNCHANGED clientVars

\* the payloads of a set that are there
WellFormed(payloads) == {d \in payloads : ~d.nil}

StoreChanges ==
    \/ \E r \in Rooms, u \in Users : AddParticipant(r, u) /\ UNCHANGED clientVars
    \/ \E r \in Rooms : DeleteRoom(r) /\ UNCHANGED clientVars

\* the relay with every kind of client and a store that changes
Next ==
    \/ Handshake \/ Joining(MaxInFlight) \/ Leaving
    \/ Drawing(MaxInFlight, DrawPayloads) \/ Chatting(MaxInFlight, ChatPayloads)
    \/ Signaling(VoicePayloads, RtcPayloads) \/ StoreChanges
Spec == Init /\ [][Next]_vars

\* clients that connect, join rooms and leave, over a store that changes
NextJoin == Handshake \/ Joining(MaxInFlight) \/ Leaving \/ StoreChanges
SpecJoin == Init /\ [][NextJoin]_vars

\* clients that connect, join rooms, chat and leave
NextChat ==
    Admission \/ Joining(MaxInFlight) \/ Leaving \/ Chatting(MaxInFlight, ChatPayloads)
SpecChat == Init /\ [][NextChat]_vars

\* the same clients, with handlers that overtake each other
NextRace ==
    Admission \/ Joining(MaxRacing) \/ Leaving \/ Chatting(MaxRacing, ChatPayloads)
SpecRace == Init /\ [][NextRace]_vars

\* clients that stay connected and use every event of the relay, with the
\* payload each event is meant to carry
NextRelay ==
    \/ Admission \/ Joining(MaxInFlight)
    \/ Drawing(MaxInFlight, WellFormed(DrawPayloads))
    \/ Chatting(MaxInFlight, WellFormed(ChatPayloads))
    \/ Signaling(WellFormed(VoicePayloads), WellFormed(RtcPayloads))
SpecRelay == Init /\ [][NextRelay]_vars

\* clients that stay connected and send events with or without the payload
\* the event is meant to carry
NextFault ==
    \/ Admission \/ Joining(MaxInFlight)
    \/ Drawing(MaxInFlight, DrawPayloads)
    \/ Chatting(MaxInFlight, ChatPayloads)
    \/ Signaling(VoicePayloads, RtcPayloads)
SpecFault == Init /\ [][NextFault]_vars

\* clients that stay connected, chat and clear the board, over a store in
\* which rooms are deleted and participants added
NextStore ==
    \/ Admission \/ Joining(MaxInFlight)
    \/ Drawing(MaxInFlight, {d \in WellFormed(DrawPayloads) : IsClear(d)})
    \/ Chatting(MaxInFlight, WellFormed(ChatPayloads))
    \/ StoreChanges
SpecStore == Init /\ [][NextStore]_vars

\* clients that chat one message at a time while others join and leave: a
\* join-room may be taken while a chat-message awaits the store
NextOverlap ==
    \/ Admission \/ Joining(MaxRacing) \/ Leaving
    \/ Chatting(MaxInFlight, WellFormed(ChatPayloads))
SpecOverlap == Init /\ [][NextOverlap]_vars

\* the chat list of each browser while messages are stored and broadcast and
\* the history is requested: a response carries the collection as it was when
\* the request was served
NextHistory ==
    \/ \E id \in MsgIds : CreateChat(id)
    \/ \E s \in Sessions, id \in MsgIds : Stored(id) /\ HandleChatMessage(s, id)
    \/ \E s \in Sessions : LoadMessagesRequest(s)
    \/ \E s \in Sessions, io \in IO : LoadMessagesResponse(s, io)
SpecHistory == Init /\ [][NextHistory]_vars

\* one Whiteboard: drawing actions and undos in any order
NextBoard ==
    \/ SaveInitial
    \/ \E kind \in Actions : Draw(kind)
    \/ Undo
SpecBoard == Init /\ [][NextBoard]_vars

\* two browsers on their room pages: microphones are switched on and off and
\* the voice signaling runs through the relay
NextVoice ==
    \/ Admission
    \/ \E s \in Sessions, r \in Rooms : MountVoiceChat(s, r)
    \/ \E s \in Sessions, r \in Rooms : ChangeRoom(s, r)
    \/ \E s \in Sessions, r \in Rooms, joins \in BOOLEAN : ChangeRoomThrows(s, r, joins)
    \/ \E s \in Sessions : ToggleMicrophone(s)
    \/ \E s \in Sessions : GetUserMedia(s, "ok")
    \/ \E s \in Sessions : VoiceReadyTimer(s)
    \/ \E s \in Sessions : HandleUserJoined(s)
    \/ \E s \in Sessions : HandleVoiceReady(s)
    \/ \E s \in Sessions : HandleOffer(s)
    \/ \E s \in Sessions : HandleAnswer(s)
    \/ \E s \in Sessions : SendJoinRoom(s)
    \/ \E s \in Sessions : SendVoiceReady(s)
    \/ \E s \in Sessions : SendWebRTCOffer(s)
    \/ \E s \in Sessions : SendWebRTCAnswer(s)
    \/ \E s \in Sessions : \E i \in DOMAIN tasks[s] : JoinRoomDelivered(s, i, "ok")
SpecVoice == Init /\ [][NextVoice]_vars

\* handleUserLeft: the entry of the user, if there is one, is closed and
\* deleted, and the user is no longer listed as connected
HandleUserLeft(s) ==
    /\ inbox[s] # <<>>
    /\ Head(inbox[s]).ev = "user-left"
    /\ LET e == Head(inbox[s]) IN
       /\ voiceChat' =
            IF e.userId \in voiceChat[s].peers
            THEN [voiceChat EXCEPT ![s].peers = @ \ {e.userId},
                                   ![s].audio = @ \ {e.userId},
                                   ![s].shut = @ \ {e.userId},
                                   ![s].connectedUsers = @ \ {e.userId}]
            ELSE voiceChat
       /\ step' = ClientStep("HandleUserLeft", s, e)
    /\ inbox' = [inbox EXCEPT ![s] = Tail(@)]
    /\ emitted' = <<>>
    /\ UNCHANGED <<serverVars, outbox, pageVars>>

\* the transport of a browser drops: the relay runs its disconnect listener,
\* the notice reaches the browsers of the room, and what the browser had
\* written and the relay had not read is lost; the page stays as it is
Drop(s) ==
    /\ InboxRoom
    /\ Disconnect(s)
    /\ inbox' = Deliver(inbox, emitted')
    /\ outbox' = [outbox EXCEPT ![s] = <<>>]
    /\ UNCHANGED <<voiceChat, pageVars>>

\* reconnection: true. The manager of the browser opens a new connection with
\* the same auth token; the relay builds a new socket for it, which has no
\* roomCode and is in no room, and runs authenticateSocket again. The
\* listeners SocketClient.connect registered for 'connect' and 'disconnect'
\* only log.
Reconnect(s) ==
    /\ ~crashed
    /\ status[s] = "closed"
    /\ tasks[s] = <<>>
    /\ status' = [status EXCEPT ![s] = "connecting"]
    /\ roomCode' = [roomCode EXCEPT ![s] = None]
    /\ userId' = [userId EXCEPT ![s] = None]
    /\ step' = Step("Reconnect", s, None, None, NoData)
    /\ emitted' = <<>>
    /\ UNCHANGED <<cred, connectError, members, storeVars, tasks, crashed, joinedOK,
                   clientVars>>

\* two browsers on their room pages whose connections drop and come back
NextReconnect ==
    \/ Admission
    \/ \E s \in Sessions, r \in Rooms : MountVoiceChat(s, r)
    \/ \E s \in Sessions : SendJoinRoom(s)
    \/ \E s \in Sessions : \E i \in DOMAIN tasks[s] : JoinRoomDelivered(s, i, "ok")
    \/ \E s \in Sessions : HandleUserJoined(s)
    \/ \E s \in Sessions : HandleUserLeft(s)
    \/ \E s \in Sessions : Drop(s)
    \/ \E s \in Sessions : Reconnect(s)
SpecReconnect == Init /\ [][NextReconnect]_vars

\* a third browser of room r, of a user outside the two modelled sessions and
\* with its microphone on, sends the offer it made for user to: the relay hands
\* it to every other socket of the room
RemoteUser == "u3"
RemoteOffer(r, to) ==
    /\ ~crashed
    /\ InboxRoom
    /\ RoomSockets(members, r) # {}
    /\ step' = Step("RemoteOffer", None, r, None, Data(None, RemoteUser, Sdp(TRUE, to)))
    /\ emitted' = <<Packet("webrtc-offer", None, r, RoomSockets(members, r),
                           RemoteUser, Sdp(TRUE, to), NoDoc)>>
    /\ inbox' = Deliver(inbox, emitted')
    /\ UNCHANGED <<serverVars, voiceChat, outbox, pageVars>>

\* three voice clients in a room: the browser of s2 speaks, the browser of s1
\* listens, and a third browser offers
NextMesh ==
    \/ Admission
    \/ \E s \in Sessions, r \in Rooms : MountVoiceChat(s, r)
    \/ \E r \in Rooms : ChangeRoom("s2", r)
    \/ ToggleMicrophone("s2")
    \/ GetUserMedia("s2", "ok")
    \/ VoiceReadyTimer("s2")
    \/ \E s \in Sessions : HandleUserJoined(s)
    \/ \E s \in Sessions : HandleVoiceReady(s)
    \/ \E s \in Sessions : HandleOffer(s)
    \/ \E s \in Sessions : HandleAnswer(s)
    \/ \E s \in Sessions : SendJoinRoom(s)
    \/ \E s \in Sessions : SendVoiceReady(s)
    \/ \E s \in Sessions : SendWebRTCOffer(s)
    \/ \E s \in Sessions : SendWebRTCAnswer(s)
    \/ \E s \in Sessions : \E i \in DOMAIN tasks[s] : JoinRoomDelivered(s, i, "ok")
    \/ \E r \in Rooms, to \in Users : RemoteOffer(r, to)
SpecMesh == Init /\ [][NextMesh]_vars

\* two browsers on their room pages whose microphone button is pressed again
\* and again, the browser granting or refusing the microphone
NextMic ==
    \/ Admission
    \/ \E s \in Sessions, r \in Rooms : MountVoiceChat(s, r)
    \/ \E s \in Sessions : ToggleMicrophone(s)
    \/ \E s \in Sessions, io \in IO : GetUserMedia(s, io)
    \/ \E s \in Sessions : VoiceReadyTimer(s)
    \/ \E s \in Sessions : HandleUserJoined(s)
    \/ \E s \in Sessions : HandleVoiceReady(s)
    \/ \E s \in Sessions : SendJoinRoom(s)
    \/ \E s \in Sessions : SendVoiceReady(s)
    \/ \E s \in Sessions : \E i \in DOMAIN tasks[s] : JoinRoomDelivered(s, i, "ok")
SpecMic == Init /\ [][NextMic]_vars

\* the chat list of each browser, handed any message in any order, any number
\* of times, and reloaded from the history at any moment
NextMessages ==
    \/ \E s \in Sessions, id \in MsgIds : HandleChatMessage(s, id)
    \/ \E s \in Sessions, h \in Histories, io \in IO : LoadMessages(s, h, io)
SpecMessages == Init /\ [][NextMessages]_vars

TypeOK ==
    /\ status \in [Sessions -> {"new", "connecting", "open", "rejected", "closed"}]
    /\ roomCode \in [Sessions -> Rooms \cup {None}]
    /\ members \in [Rooms -> SUBSET Sessions]
    /\ InFlight <= MaxRacing
    /\ \A s \in Sessions :
          /\ voiceChat[s].roomId \in Rooms \cup {None}
          /\ voiceChat[s].peers \subseteq Users \cup {RemoteUser}
          /\ voiceChat[s].audio \subseteq voiceChat[s].peers
          /\ voiceChat[s].shut \subseteq voiceChat[s].peers
          /\ voiceChat[s].connectedUsers \subseteq Users \cup {RemoteUser}
          /\ voiceChat[s].wait \in {None, "media", "timer"}
          /\ Len(inbox[s]) <= MaxInbox
          /\ Len(outbox[s]) <= MaxInbox

\* ------------------------------------------------------------------ claims
\* the packets of the step just taken that carry event ev
Sent(ev) == {k \in DOMAIN emitted : emitted[k].ev = ev}

\* the rooms whose live membership holds session s
RoomsOf(s) == {r \in Rooms : s \in members[r]}

\* the step about to be observed settles a join-room of a session for a room
\* the store holds
JoinSettles(st) == st.op = "JoinRoomResolve" /\ st.io = "ok" /\ st.room \in dbRooms

\* C1: a join-room attempt of a session whose identity is not among the
\* participants of the room leaves the live membership and the session's room
\* code as they were, emits no user-joined notice, and sends the error
\* 'Access denied' to the requesting session and to nobody else.
C1_DeniedJoinChangesNothing ==
    [][(JoinSettles(step') /\ userId[step'.sess] \notin participants[step'.room])
         => /\ members' = members
            /\ roomCode' = roomCode
            /\ Len(emitted') = 1
            /\ emitted'[1].ev = "error"
            /\ emitted'[1].val = "Access denied"
            /\ emitted'[1].to = {t \in {step'.sess} : Connected(t)}]_vars

\* a session was denied a room in which another session is live
C1_Witness ==
    /\ step.op = "JoinRoomResolve"
    /\ Len(emitted) = 1 /\ emitted[1].val = "Access denied"
    /\ emitted[1].to = {step.sess}
    /\ RoomSockets(members, step.room) \ {step.sess} # {}

\* C2: a join-room of a session whose identity is among the participants the
\* store holds at that attempt records the room code on the session, adds the
\* session to the live membership of the room, and emits one user-joined
\* notice carrying the joiner's identity to every other session live in the
\* room and not to the joiner.
C2_GrantedJoin ==
    [][(JoinSettles(step') /\ userId[step'.sess] \in participants[step'.room])
         => /\ roomCode'[step'.sess] = step'.room
            /\ step'.sess \in members'[step'.room]
            /\ Len(emitted') = 1
            /\ emitted'[1].ev = "user-joined"
            /\ emitted'[1].userId = userId[step'.sess]
            /\ emitted'[1].username = Username(userId[step'.sess])
            /\ emitted'[1].to =
                 {t \in members[step'.room] : Connected(t)} \ {step'.sess}]_vars

\* u2, no participant of R1 at first, has joined R1 and s1 was told
C2_Witness ==
    /\ step.op = "JoinRoomResolve" /\ step.sess = "s2" /\ step.room = "R1"
    /\ Len(emitted) = 1 /\ emitted[1].ev = "user-joined"
    /\ emitted[1].userId = "u2" /\ emitted[1].to = {"s1"}
    /\ roomCode["s2"] = "R1"

\* C3: in every reachable state a session is in the live membership of at most
\* one room.
C3_AtMostOneRoom == \A s \in Sessions : Cardinality(RoomsOf(s)) <= 1

\* C4: when a session joined to a room successfully joins another room, its
\* room code becomes the new room and the sessions remaining live in the old
\* room (there is at least one) receive a user-left notice with its identity.
C4_SwitchNotifiesOldRoom ==
    [][(/\ JoinSettles(step')
        /\ userId[step'.sess] \in participants[step'.room]
        /\ roomCode[step'.sess] \notin {None, step'.room}
        /\ ToOthers(step'.sess, roomCode[step'.sess]) # {})
         => /\ roomCode'[step'.sess] = step'.room
            /\ \E k \in DOMAIN emitted' :
                  /\ emitted'[k].ev = "user-left"
                  /\ emitted'[k].userId = userId[step'.sess]
                  /\ emitted'[k].to = ToOthers(step'.sess, roomCode[step'.sess])]_vars

\* C5: a chat-message sent by a session joined to room R, the store
\* operations succeeding, is delivered once to every live session of R, the
\* sender included, with the sent text and the sender's username.
C5_ChatReachesTheRoom ==
    (step.op = "ChatFindById" /\ step.io = "ok")
      => /\ Len(emitted) = 1
         /\ emitted[1].ev = "chat-message"
         /\ emitted[1].val = step.data.val
         /\ emitted[1].username = Username(userId[step.sess])
         /\ RoomSockets(members, step.room) \subseteq emitted[1].to

\* C6: no chat-message is broadcast unless its record was created in the
\* store beforehand, and when Chat.create fails nothing is stored, nothing is
\* relayed and the sender alone receives an error notice.
C6_RelayOnlyAfterPersistence ==
    [][/\ \A k \in DOMAIN emitted' :
             emitted'[k].ev = "chat-message" => emitted'[k].rec \in chats
       /\ (step'.op = "ChatCreate" /\ step'.io = "throw")
            => /\ chats' = chats
               /\ Len(emitted') = 1
               /\ emitted'[1].ev = "error"
               /\ emitted'[1].to = {t \in {step'.sess} : Connected(t)}]_vars

\* Chat.create failed for a sender that has a live peer in its room
C6_Witness ==
    /\ step.op = "ChatCreate" /\ step.io = "throw"
    /\ Len(emitted) = 1 /\ emitted[1].ev = "error" /\ emitted[1].to = {step.sess}
    /\ RoomSockets(members, step.room) \ {step.sess} # {}

\* C7: every record the chat handler creates is broadcast to the full room,
\* once: the handler that stored a record ends by relaying that record to the
\* live sessions of the record's room.
C7_StoredRecordIsBroadcast ==
    step.op = "ChatFindById"
      => /\ step.rec \in chats
         /\ Len(emitted) = 1
         /\ emitted[1].ev = "chat-message"
         /\ emitted[1].rec = step.rec
         /\ RoomSockets(members, step.rec.roomId) \subseteq emitted[1].to

\* the handler steps of the seven room events
EventOps ==
    {"DrawingUpdate", "ChatMessage", "VoiceToggle", "VoiceReady", "WebrtcOffer",
     "WebrtcAnswer", "WebrtcIceCandidate"}

\* C8: an event of any of the seven kinds from a session with no active room,
\* also while a join-room of that session is being validated, is dropped:
\* nothing is emitted (no relay, no error notice), no handler is left waiting
\* and the store is unchanged.
C8_NoRoomEventDropped ==
    [][(step'.op \in EventOps /\ roomCode[step'.sess] = None)
         => /\ emitted' = <<>>
            /\ tasks' = tasks
            /\ storeVars' = storeVars
            /\ members' = members
            /\ ~crashed']_vars

\* an event was dropped while the join-room of its sender waits for the store,
\* with a session live in the room asked for
C8_Witness ==
    /\ step.op \in EventOps /\ step.room = None /\ emitted = <<>>
    /\ \E i \in DOMAIN tasks[step.sess] :
          /\ tasks[step.sess][i].kind = "join-room"
          /\ RoomSockets(members, tasks[step.sess][i].room) # {}

\* the room a relayed packet belongs to: for a chat-message the room of the
\* stored record
EventRoom(p) == IF p.ev = "chat-message" THEN p.roomId ELSE p.room

\* C9: a session that has not completed a successful join of room R receives
\* no event of R, and a session that has only connected is in no room.
C9_OnlyJoinedSessionsReceive ==
    /\ \A k \in DOMAIN emitted :
          emitted[k].ev # "error"
            => \A t \in emitted[k].to : EventRoom(emitted[k]) \in joinedOK[t]
    /\ \A s \in Sessions : joinedOK[s] = {} => RoomsOf(s) = {}

\* C10: a connection whose token is missing, fails verification or names an
\* unknown user is rejected with 'Authentication error' in all three cases, and
\* the relay never accepts a room event of it nor relays one.
InvalidTokens == {"missing", "forged", "stale"}

C10_InvalidTokenRejected ==
    \A s \in Sessions :
       (cred[s] \in InvalidTokens /\ status[s] # "connecting")
         => /\ status[s] = "rejected"
            /\ connectError[s] = "Authentication error"
            /\ roomCode[s] = None /\ RoomsOf(s) = {} /\ tasks[s] = <<>>
            /\ step.sess = s => step.op \in {"Connect", "AuthResolve"}
            /\ \A k \in DOMAIN emitted : emitted[k].from # s

\* the connection with the token of an unknown user is rejected while the
\* other session is live in a room
C10_Witness ==
    /\ cred["s2"] = "stale" /\ status["s2"] = "rejected"
    /\ connectError["s2"] = "Authentication error"
    /\ roomCode["s1"] # None

\* the events the relay passes on without storing them
EphemeralEvents ==
    {"drawing-update", "voice-toggle", "voice-ready", "webrtc-offer",
     "webrtc-answer", "webrtc-ice-candidate"}

\* C11: every relayed drawing-update, voice-toggle, voice-ready, webrtc-offer,
\* webrtc-answer and webrtc-ice-candidate carries as userId the identity the
\* sending session was authenticated with, whatever userId its payload held.
C11_RelayCarriesSessionIdentity ==
    \A k \in DOMAIN emitted :
       emitted[k].ev \in EphemeralEvents
         => /\ emitted[k].from = step.sess
            /\ emitted[k].userId = userId[step.sess]
            /\ emitted[k].userId \in Users

\* a drawing-update whose payload claims another identity reached a peer under
\* the sender's own
C11_Witness ==
    /\ step.op = "DrawingUpdate" /\ step.data.userId = "u9"
    /\ Len(emitted) = 1 /\ emitted[1].userId = userId[step.sess]
    /\ emitted[1].to # {}

\* C12: when a session disconnects while joined to room R (R is the room of
\* its last granted join), every session remaining live in R receives one
\* user-left notice with that session's identity; the disconnect of a session
\* that never joined a room emits no user-left notice.
C12_DisconnectNotifiesRoom ==
    [][step'.op = "Disconnect"
         => IF roomCode[step'.sess] = None
            THEN emitted' = <<>>
            ELSE /\ Len(emitted') = 1
                 /\ emitted'[1].ev = "user-left"
                 /\ emitted'[1].userId = userId[step'.sess]
                 /\ emitted'[1].to =
                      RoomSockets(members, roomCode[step'.sess]) \ {step'.sess}]_vars

\* a joined session has gone and the session left in its room was told
C12_Witness ==
    /\ step.op = "Disconnect" /\ step.room # None
    /\ Len(emitted) = 1 /\ emitted[1].ev = "user-left"
    /\ emitted[1].to = RoomSockets(members, step.room)
    /\ emitted[1].to # {}

\* the steps in which the snapshot reset of a clear goes on
ResetSteps == {"DrawingFindRoom", "DrawingFindBoard", "DrawingClearBoard"}

\* C13: a drawing-update of type clear sent by session S whose room is R is
\* relayed once to every other live session of R and not to S, and the
\* snapshot reset that follows relays nothing more, whether it succeeds, fails
\* or finds no board.
C13_ClearRelayedOnce ==
    [][/\ (/\ step'.op = "DrawingUpdate" /\ step'.data.type = "clear"
           /\ roomCode[step'.sess] # None)
          => /\ Len(emitted') = 1
             /\ emitted'[1].ev = "drawing-update"
             /\ emitted'[1].val = "clear"
             /\ emitted'[1].to =
                  RoomSockets(members, roomCode[step'.sess]) \ {step'.sess}
       /\ step'.op \in ResetSteps
          => \A k \in DOMAIN emitted' : emitted'[k].ev # "drawing-update"]_vars

\* the clear of a room that has no board snapshot reached the peer
C13_Witness ==
    /\ step.op = "DrawingUpdate" /\ step.data.type = "clear"
    /\ step.room \notin dbBoards
    /\ Len(emitted) = 1 /\ emitted[1].to # {} /\ step.sess \notin emitted[1].to

\* C14: when the snapshot reset of a clear fails (a store call throws, or the
\* room has no board snapshot), the acting session receives an error notice.
C14_ResetFailureReported ==
    (/\ step.op \in ResetSteps
     /\ \/ step.io = "throw"
        \/ step.op = "DrawingFindBoard" /\ step.room \notin dbBoards)
      => /\ Len(emitted) = 1
         /\ emitted[1].ev = "error"
         /\ emitted[1].to = {step.sess}

\* C15: a drawing-update of another type than clear starts no store call and
\* changes no store; a snapshot reset is started and a board is reset only for
\* a clear.
C15_OnlyClearTouchesStore ==
    [][/\ (step'.op = "DrawingUpdate" /\ step'.data.type # "clear")
          => tasks' = tasks /\ storeVars' = storeVars
       /\ (step'.op = "DrawingUpdate" /\ tasks' # tasks)
          => step'.data.type = "clear"
       /\ boardCleared' # boardCleared
          => step'.op = "DrawingClearBoard" /\ step'.data.type = "clear"]_vars

\* a cursor update was relayed to a peer and left the stores alone
C15_Witness ==
    /\ step.op = "DrawingUpdate" /\ step.data.type = "cursor"
    /\ Len(emitted) = 1 /\ emitted[1].to # {}

\* C16: two drawing-update events a session sends one after the other reach
\* the other members of its room in the order sent, also when the first is a
\* clear whose snapshot reset is in flight: each is relayed by the step that
\* receives it, with its own payload, and by no later step.
C16_DrawingRelayedOnReceipt ==
    [][/\ \A k \in DOMAIN emitted' :
             emitted'[k].ev = "drawing-update"
               => /\ step'.op = "DrawingUpdate"
                  /\ emitted'[k].from = step'.sess
                  /\ emitted'[k].val = step'.data.type
       /\ (step'.op = "DrawingUpdate" /\ roomCode[step'.sess] # None)
            => /\ Len(emitted') = 1
               /\ emitted'[1].ev = "drawing-update"
               /\ emitted'[1].to = ToOthers(step'.sess, roomCode[step'.sess])]_vars

\* a cursor update reached the peer while the reset of the sender's earlier
\* clear waits for the store
C16_Witness ==
    /\ step.op = "DrawingUpdate" /\ step.data.type = "cursor"
    /\ Len(emitted) = 1 /\ emitted[1].to # {}
    /\ \E i \in DOMAIN tasks[step.sess] :
          /\ tasks[step.sess][i].kind = "drawing-update"
          /\ tasks[step.sess][i].room = step.room

\* C17: the events of a session are relayed in the order it sent them: the
\* relay of an event (here a drawing or signaling event, relayed in the step
\* that receives it) is not followed by the relay of a chat-message the same
\* session sent before it, to a session that receives both.
C17_SessionOrderPreserved ==
    [][~(/\ step.op \in EventOps \ {"ChatMessage"}
         /\ step'.op = "ChatFindById"
         /\ step'.sess = step.sess
         /\ \E j \in DOMAIN emitted, k \in DOMAIN emitted' :
               /\ emitted[j].ev # "error"
               /\ emitted'[k].ev = "chat-message"
               /\ emitted[j].to \cap emitted'[k].to # {})]_vars

\* C18: every failure inside an event handler, whatever the event and its
\* payload (a missing payload included), is caught by the handler and becomes
\* an error notice to the sender; no event raises an uncaught exception that
\* brings the relay process down and takes the other sessions with it.
C18_NoUncaughtFailure ==
    /\ ~crashed
    /\ (/\ step.op \in EventOps \ {"ChatMessage", "VoiceReady"}
        /\ step.room # None /\ step.data.nil)
         => \E k \in DOMAIN emitted :
               emitted[k].ev = "error" /\ emitted[k].to = {step.sess}

\* C19: every error notice the relay emits goes to the session whose own
\* event failed and to no other session; none is broadcast to a room.
C19_ErrorsOnlyToOriginator ==
    \A k \in DOMAIN emitted :
       emitted[k].ev = "error"
         => /\ emitted[k].from = step.sess
            /\ emitted[k].to \subseteq {step.sess}
            /\ emitted[k].room = None

\* a handler of a session failed while another session was live in its room,
\* and the notice went to the first alone
C19_Witness ==
    /\ step.op \in {"DrawingUpdate", "DrawingFindRoom", "DrawingFindBoard",
                    "ChatFindRoom", "ChatCreate", "ChatFindById"}
    /\ \E k \in DOMAIN emitted :
          emitted[k].ev = "error" /\ emitted[k].to = {step.sess}
    /\ roomCode[step.sess] # None
    /\ RoomSockets(members, roomCode[step.sess]) \ {step.sess} # {}

\* the handler steps of the voice and WebRTC events
SignalOps ==
    {"VoiceToggle", "VoiceReady", "WebrtcOffer", "WebrtcAnswer", "WebrtcIceCandidate"}

\* the event a signaling handler emits
SignalEvent(op) ==
    CASE op = "VoiceToggle" -> "voice-toggle"
      [] op = "VoiceReady" -> "voice-ready"
      [] op = "WebrtcOffer" -> "webrtc-offer"
      [] op = "WebrtcAnswer" -> "webrtc-answer"
      [] OTHER -> "webrtc-ice-candidate"

\* C20: a voice-toggle, voice-ready, webrtc-offer, webrtc-answer or
\* webrtc-ice-candidate of a joined session is relayed once, as the same
\* event, to every other live session of the sender's room and to nobody else,
\* is not stored, and for the WebRTC kinds carries the value that was sent.
C20_SignalingRelayedToPeers ==
    [][(step'.op \in SignalOps /\ roomCode[step'.sess] # None)
         => /\ Len(emitted') = 1
            /\ emitted'[1].ev = SignalEvent(step'.op)
            /\ emitted'[1].room = roomCode[step'.sess]
            /\ emitted'[1].to =
                 RoomSockets(members, roomCode[step'.sess]) \ {step'.sess}
            /\ step'.op \in {"WebrtcOffer", "WebrtcAnswer", "WebrtcIceCandidate"}
                 => emitted'[1].val = step'.data.val
            /\ storeVars' = storeVars
            /\ tasks' = tasks]_vars

\* an offer reached the peer of the sender's room with the value sent
C20_Witness ==
    /\ step.op = "WebrtcOffer" /\ step.data.val = "sdp"
    /\ Len(emitted) = 1 /\ emitted[1].val = "sdp"
    /\ emitted[1].to # {} /\ step.sess \notin emitted[1].to

\* C21: once a session is closed, no event attributed to it is relayed to any
\* session afterwards, the chat-message whose persistence was in flight when
\* it disconnected included; its own user-left notice is the last packet sent
\* on its behalf.
C21_ClosedSessionRelaysNothing ==
    \A k \in DOMAIN emitted :
       (emitted[k].ev # "error" /\ emitted[k].to # {} /\ step.op # "Disconnect")
         => status[emitted[k].from] = "open"

\* C22: a join-room naming a room that does not exist sends 'Room not found'
\* to the requesting session only, changes no membership and no room code,
\* emits no user-joined notice and leaves the connection as it was.
C22_UnknownRoomRejected ==
    [][(/\ step'.op = "JoinRoomResolve" /\ step'.io = "ok"
        /\ step'.room \notin dbRooms)
         => /\ members' = members
            /\ roomCode' = roomCode
            /\ status' = status
            /\ Len(emitted') = 1
            /\ emitted'[1].ev = "error"
            /\ emitted'[1].val = "Room not found"
            /\ emitted'[1].to = {t \in {step'.sess} : Connected(t)}]_vars

\* an open session asked for a room that is gone and was told so
C22_Witness ==
    /\ step.op = "JoinRoomResolve" /\ step.room \notin dbRooms
    /\ Len(emitted) = 1 /\ emitted[1].val = "Room not found"
    /\ emitted[1].to = {step.sess}
    /\ status[step.sess] = "open"

\* the step about to be observed settles a join-room that is refused
JoinFails(st) ==
    /\ st.op = "JoinRoomResolve"
    /\ \/ st.io = "throw"
       \/ st.room \notin dbRooms
       \/ userId[st.sess] \notin participants[st.room]

\* C26: a join attempt that fails (room not found, access denied or lookup
\* error) while the session is joined to room R leaves its room code, every
\* live membership and the connection unchanged and sends it one error notice.
C26_FailedJoinKeepsRoom ==
    [][(JoinFails(step') /\ roomCode[step'.sess] # None)
         => /\ roomCode' = roomCode
            /\ members' = members
            /\ status' = status
            /\ Len(emitted') = 1
            /\ emitted'[1].ev = "error"
            /\ emitted'[1].to \subseteq {step'.sess}]_vars

\* a session joined to a room was refused another one and is still open and
\* joined to the first
C26_Witness ==
    /\ step.op = "JoinRoomResolve"
    /\ Len(emitted) = 1 /\ emitted[1].ev = "error"
    /\ roomCode[step.sess] \notin {None, step.room}
    /\ step.sess \in members[roomCode[step.sess]]
    /\ status[step.sess] = "open"

\* C23: a chat-message or a clear drawing-update of a session whose room code
\* no longer names an existing room is answered with one error event addressed
\* to that session, and the connection remains open.
C23_GoneRoomReported ==
    (/\ step.op \in {"ChatFindRoom", "DrawingFindRoom"}
     /\ step.io = "ok"
     /\ step.room \notin dbRooms)
      => /\ Len(emitted) = 1
         /\ emitted[1].ev = "error"
         /\ emitted[1].to = {step.sess}
         /\ status[step.sess] = "open"

\* the steps that relay an ephemeral event: a cursor or a stroke, a voice or a
\* WebRTC signal
Ephemeral(st) ==
    \/ st.op \in SignalOps
    \/ st.op = "DrawingUpdate" /\ ~st.data.nil /\ ~IsClear(st.data)

\* C28: an ephemeral event of a joined session is relayed to the other live
\* sessions of its room in the step that receives it, also while a persisting
\* handler of any session is suspended, without touching that handler; and a
\* store call that fails ends its own handler only: the process, the
\* connections, the memberships and the room codes stay as they were.
C28_EphemeralRelayUnblocked ==
    [][/\ (Ephemeral(step') /\ roomCode[step'.sess] # None /\ InFlight > 0)
          => /\ ~crashed'
             /\ Len(emitted') = 1
             /\ emitted'[1].ev =
                  (IF step'.op = "DrawingUpdate" THEN "drawing-update"
                   ELSE SignalEvent(step'.op))
             /\ emitted'[1].to =
                  RoomSockets(members, roomCode[step'.sess]) \ {step'.sess}
             /\ tasks' = tasks
       /\ step'.io = "throw"
          => /\ ~crashed'
             /\ status' = status
             /\ members' = members
             /\ roomCode' = roomCode
             /\ \A k \in DOMAIN emitted' : emitted'[k].ev = "error"]_vars

\* a signal reached the peer while the chat-message of that peer was waiting
\* for the store
C28_Witness ==
    /\ step.op \in SignalOps
    /\ Len(emitted) = 1 /\ emitted[1].to # {}
    /\ \E t \in emitted[1].to :
          \E i \in DOMAIN tasks[t] : tasks[t][i].kind = "chat-message"

\* C30: a chat-message is broadcast only to live members of the room under
\* whose durable record it was stored, also when the sender's join-room for
\* another room completes while the chat handler awaits the store.
C30_BroadcastStaysInStoredRoom ==
    \A k \in DOMAIN emitted :
       emitted[k].ev = "chat-message"
         => emitted[k].to \subseteq RoomSockets(members, emitted[k].rec.roomId)

\* C27: a chat-message broadcast goes to the sessions that are live members of
\* the sender's room when the broadcast is sent: sessions that joined while
\* the store was awaited are included, sessions that disconnected meanwhile
\* are left out, and a disconnect neither ends a suspended handler nor brings
\* the relay down.
C27_RecipientsResolvedAtSend ==
    [][/\ (step'.op = "ChatFindById" /\ step'.io = "ok")
          => /\ Len(emitted') = 1
             /\ emitted'[1].ev = "chat-message"
             /\ emitted'[1].to = RoomSockets(members', roomCode'[step'.sess])
             /\ ~crashed'
       /\ step'.op = "Disconnect"
          => tasks' = tasks /\ ~crashed']_vars

\* the message of a session that disconnected while its record was being
\* stored reached the member that remained
C27_Witness ==
    /\ step.op = "ChatFindById" /\ step.io = "ok"
    /\ status[step.sess] = "closed"
    /\ Len(emitted) = 1 /\ emitted[1].ev = "chat-message"
    /\ emitted[1].to # {}

\* C29: whatever chat-message events a browser has received, its message list
\* holds no two entries with the same _id, and a received message whose _id is
\* already listed leaves the list as it was.
C29_NoDuplicateMessages ==
    [][/\ \A s \in Sessions : \A a, b \in DOMAIN messages'[s] :
             a # b => messages'[s][a] # messages'[s][b]
       /\ (/\ step'.op = "HandleChatMessage"
           /\ \E k \in DOMAIN messages[step'.sess] :
                 messages[step'.sess][k] = step'.data.val)
          => messages' = messages]_vars

\* a message that was already listed, and not last, arrived again and the list
\* still holds it once
C29_Witness ==
    /\ step.op = "HandleChatMessage"
    /\ Len(messages[step.sess]) >= 2
    /\ messages[step.sess][1] = step.data.val

\* C24: when a browser whose microphone is enabled and whose local stream is
\* there handles a user-joined or voice-ready notice of another user, it holds
\* a peer connection for that user afterwards and has emitted a webrtc-offer.
C24_MicHolderOffers ==
    (/\ step.op \in {"HandleUserJoined", "HandleVoiceReady"}
     /\ step.data.userId # userId[step.sess]
     /\ voiceChat[step.sess].isMicEnabled
     /\ voiceChat[step.sess].stream)
      => /\ step.data.userId \in voiceChat[step.sess].peers
         /\ \E k \in DOMAIN outbox[step.sess] :
               outbox[step.sess][k].ev = "webrtc-offer"

\* C25: with two users joined to the same room, once the browser of the one
\* whose microphone is off has handled the voice-ready of the one who enabled
\* it, an offer is on its way or a peer connection between the two exists.
C25_LoneMicGetsExchange ==
    \A t \in Sessions :
       (/\ step.op = "HandleVoiceReady"
        /\ t # step.sess
        /\ step.data.userId = userId[t]
        /\ roomCode[t] # None /\ roomCode[t] = roomCode[step.sess]
        /\ voiceChat[t].isMicEnabled /\ voiceChat[t].stream
        /\ ~voiceChat[step.sess].isMicEnabled)
         => \/ \E k \in DOMAIN outbox[step.sess] :
                  outbox[step.sess][k].ev = "webrtc-offer"
            \/ step.data.userId \in voiceChat[step.sess].peers
            \/ userId[step.sess] \in voiceChat[t].peers

\* C31: a join-room for the room the session is already joined to leaves the
\* membership unchanged and sends no further user-joined notice to the peers
\* of the room.
C31_RejoinIsSilent ==
    [][(/\ step'.op = "JoinRoomResolve"
        /\ roomCode[step'.sess] = step'.room
        /\ step'.sess \in members[step'.room])
         => /\ members' = members
            /\ \A k \in DOMAIN emitted' :
                  emitted'[k].ev = "user-joined" => emitted'[k].to = {}]_vars

\* C33: a chat-message the browser has received and listed stays in its list:
\* no later step, the arrival of a history response included, removes it.
C33_ReceivedMessageStays ==
    [][\A s \in Sessions : \A k \in DOMAIN messages[s] :
          \E j \in DOMAIN messages'[s] : messages'[s][j] = messages[s][k]]_vars

\* C39: an undo restores the canvas to what it showed immediately before the
\* most recent drawing action that is not undone yet, so that k undos step
\* back through the k most recent actions one at a time.
C39_UndoRestoresPrevious ==
    [][(step'.op = "Undo" /\ past # <<>>) => canvas' = past[Len(past)]]_vars

\* C35: the cleanup run when the room of the page changes closes every
\* connection of the peer map and leaves the map empty, also when an entry has
\* no audioElement yet.
C35_CleanupEmptiesMap ==
    [][step'.op \in {"ChangeRoom", "ChangeRoomThrows"}
         => voiceChat'[step'.sess].peers = {}]_vars

\* C36: no open connection exists outside the peer map: every connection the
\* voice client created and did not close is the one stored under its user.
C36_NoOrphanedConnection ==
    \A s \in Sessions : voiceChat[s].orphans = {}

\* C37: every user listed in connectedUsers has an entry in the peer map.
C37_ConnectedUsersHavePeers ==
    \A s \in Sessions : voiceChat[s].connectedUsers \subseteq voiceChat[s].peers

\* C38: when getUserMedia rejects, the microphone stays disabled, no stream is
\* stored, no voice-ready is scheduled or emitted and isConnecting is false;
\* isConnecting is false after every toggle that has completed.
C38_FailedEnableLeavesMicOff ==
    [][/\ (step'.op = "GetUserMedia" /\ step'.io = "throw")
          => /\ ~voiceChat'[step'.sess].isMicEnabled
             /\ ~voiceChat'[step'.sess].stream
             /\ voiceChat'[step'.sess].wait = None
             /\ outbox' = outbox
       /\ (\/ step'.op = "GetUserMedia"
           \/ step'.op = "ToggleMicrophone" /\ voiceChat'[step'.sess].wait = None)
          => ~voiceChat'[step'.sess].isConnecting]_vars

\* a refused microphone in a room where the other browser listens
C38_Witness ==
    /\ step.op = "GetUserMedia"
    /\ step.io = "throw"
    /\ ~voiceChat[step.sess].isConnecting
    /\ \E t \in Sessions \ {step.sess} : voiceChat[t].roomId = voiceChat[step.sess].roomId

\* C32: an answer is applied to a peer connection only by the client whose
\* offer it answers: a client that holds a connection for the answering user
\* does not apply an answer made for somebody else.
C32_AnswerAppliedByAddressee ==
    [][(/\ step'.op = "HandleAnswer"
        /\ Applies(step'.sess, Head(inbox[step'.sess])))
         => Head(inbox[step'.sess]).val.for = userId[step'.sess]]_vars

\* C34: when the dropped connection of a browser that shows a room is open
\* again, the browser has issued join-room for that room.
C34_ReconnectRejoins ==
    [][(/\ step'.op = "AuthResolve"
        /\ status'[step'.sess] = "open"
        /\ voiceChat[step'.sess].roomId # None)
         => \E k \in DOMAIN outbox'[step'.sess] :
               /\ outbox'[step'.sess][k].ev = "join-room"
               /\ outbox'[step'.sess][k].val = voiceChat[step'.sess].roomId]_vars

====
